---- MODULE Spec2Model ----
(***************************************************************************)
(* Model of src/exec/command.rs: OutputBuffer (push, write) and the        *)
(* command runner execute_commands with handle_cmd_error, run by one or    *)
(* several worker threads that share the process's real stdout and stderr. *)
(***************************************************************************)
EXTENDS Naturals, Sequences, FiniteSets

\* ------------------------------------------------------------------ bounds

\* Longest command sequence handed to a runner in the sequential specification.
MaxCmds == 3
\* Longest command sequence per worker in the concurrent specification.
MaxConcCmds == 2
\* Longest command sequence per worker in the fair specification, where the
\* real streams may reject writes.
MaxLiveCmds == 1

\* --------------------------------------------------------------- constants

\* b"\0", the separator byte of OutputBuffer::write.
NUL == 0
\* The line feed that writeln! appends to a header.
NL == 10

Workers == {"w1", "w2"}
NoOwner == "nobody"

\* Option<T>: None is the empty sequence, Some(x) the one-element sequence.
None == << >>
Some(x) == << x >>

\* ------------------------------------------------------------------ inputs

\* The programs a Command may name, and what the operating system does with
\* each when it is spawned and waited for.
\* echoB also warns on stderr; killed dies of a signal after writing two bytes
\* that are not text.
Programs == {"echoA", "echoB", "false", "killed", "nonexistent", "noperm"}

ErrorKinds == {"NotFound", "PermissionDenied"}

\* io::Result<Output> of cmd.output() / cmd.spawn().and_then(wait_with_output).
OsResult(ok, kind, code, so, se) ==
    [ok |-> ok, kind |-> kind, code |-> code, stdout |-> so, stderr |-> se]

RunProgram(prog) ==
    CASE prog = "echoA"       -> OsResult(TRUE, "", Some(0), <<65, 10>>, <<>>)
      [] prog = "echoB"       -> OsResult(TRUE, "", Some(0), <<66, 10>>, <<69>>)
      [] prog = "false"       -> OsResult(TRUE, "", Some(1), <<>>, <<>>)
      [] prog = "killed"      -> OsResult(TRUE, "", None, <<0, 255>>, <<33>>)
      [] prog = "nonexistent" -> OsResult(FALSE, "NotFound", None, <<>>, <<>>)
      [] OTHER                -> OsResult(FALSE, "PermissionDenied", None, <<>>, <<>>)

\* An element of the command iterator: io::Result<Command>.
OkCmd(prog) == [ok |-> TRUE, prog |-> prog, kind |-> ""]
ErrCmd(kind) == [ok |-> FALSE, prog |-> "", kind |-> kind]

Items == {OkCmd(p) : p \in Programs} \cup {ErrCmd(k) : k \in ErrorKinds}

ConcItems == {OkCmd("echoB"), OkCmd("nonexistent"), ErrCmd("NotFound")}

SeqsUpTo(S, n) == UNION {[1..k -> S] : k \in 0..n}

\* The command sequences of the concurrent specification: a failing command
\* ends the run, so it is the last element of its sequence.
ConcSeqs ==
    {c \in SeqsUpTo(ConcItems, MaxConcCmds) :
        \A i \in 1..(Len(c) - 1) : c[i] = OkCmd("echoB")}

Headers == {None, Some(<<72>>)}
\* In the concurrent specification every worker is given a header.
ConcHeaders == {Some(<<72>>)}

\* The command sequences of the fair specification.
LiveSeqs == {c \in ConcSeqs : Len(c) <= MaxLiveCmds}

\* The real streams; a stream in `broken` rejects every write made to it
\* through io::stdout() / io::stderr() (a closed pipe), which the code ignores.
Streams == {"out", "err"}

\* ------------------------------------------------------------------- state

VARIABLES
    cmds,                    \* [w]: the command sequence handed to the runner
    null_separator,          \* [w]: OutputBuffer.null_separator
    enable_output_buffering, \* [w]: the runner's mode
    header,                  \* [w]: Option<String>, as bytes
    outputs,                 \* [w]: OutputBuffer.outputs
    first,                   \* [w]: the runner's `first` flag
    idx,                     \* [w]: how many elements the for loop has pulled
    output,                  \* [w]: the io::Result<Output> being matched
    pc,                      \* [w]: the runner's position in the code
    after,                   \* [w]: what follows the write() in progress
    wi,                      \* [w]: the entry write()'s loop is at
    ret,                     \* [w]: Option<ExitCode> returned
    spawned,                 \* [w]: indices of the commands spawned, in order
    nwrites,                 \* [w]: calls of OutputBuffer::write
    running,                 \* [w]: indices of w's children that are alive
    hflushed,                \* [w]: handle.flush() was called after the header
    broken,                  \* the real streams that reject writes
    stdoutLock,              \* owner of io::stdout()'s lock
    stderrLock,              \* owner of io::stderr()'s lock
    out,                     \* real stdout: <<worker, origin, byte>>
    err,                     \* real stderr: <<worker, origin, byte>>
    errchan                  \* print_error: <<worker, message, detail>>

vars == <<cmds, null_separator, enable_output_buffering, header, outputs,
          first, idx, output, pc, after, wi, ret, spawned, nwrites,
          running, hflushed, broken,
          stdoutLock, stderrLock, out, err, errchan>>

args == <<cmds, null_separator, enable_output_buffering, header, broken>>
children == <<running, hflushed>>
locks == <<stdoutLock, stderrLock>>
streams == <<out, err, errchan>>

NoResult == OsResult(FALSE, "", None, <<>>, <<>>)

\* A worker thread that runs execute_commands(cmds, OutputBuffer::new(ns), buf, h).
Started(c, ns, buf, h) ==
    [cmds |-> c, ns |-> ns, buf |-> buf, h |-> h, pc |-> "loop"]
\* A worker thread that has no job.
Idle == [cmds |-> <<>>, ns |-> FALSE, buf |-> TRUE, h |-> None, pc |-> "idle"]

Jobs(seqs, hs) ==
    {Started(c, ns, buf, h) :
        c \in seqs, ns \in BOOLEAN, buf \in BOOLEAN, h \in hs}

\* Variant: the flag starts cleared.
FirstInitCleared == FALSE
\* let mut first = true;
FirstInit == TRUE

InitWith(job, br) ==
    /\ cmds = [w \in Workers |-> job[w].cmds]
    /\ null_separator = [w \in Workers |-> job[w].ns]
    /\ enable_output_buffering = [w \in Workers |-> job[w].buf]
    /\ header = [w \in Workers |-> job[w].h]
    /\ outputs = [w \in Workers |-> <<>>]
    /\ first = [w \in Workers |-> FirstInit]
    /\ idx = [w \in Workers |-> 0]
    /\ output = [w \in Workers |-> NoResult]
    /\ pc = [w \in Workers |-> job[w].pc]
    /\ after = [w \in Workers |-> ""]
    /\ wi = [w \in Workers |-> 0]
    /\ ret = [w \in Workers |-> None]
    /\ spawned = [w \in Workers |-> <<>>]
    /\ nwrites = [w \in Workers |-> 0]
    /\ running = [w \in Workers |-> {}]
    /\ hflushed = [w \in Workers |-> FALSE]
    /\ broken = br
    /\ stdoutLock = NoOwner
    /\ stderrLock = NoOwner
    /\ out = <<>>
    /\ err = <<>>
    /\ errchan = <<>>

\* One runner, any command sequence of at most MaxCmds elements.
Init ==
    \E j \in Jobs(SeqsUpTo(Items, MaxCmds), Headers) :
        InitWith([w \in Workers |-> IF w = "w1" THEN j ELSE Idle], {})

\* Every worker runs its own runner with its own OutputBuffer. The workers
\* are interchangeable, so each pair of jobs is handed out one way round.
InitConc ==
    \E a, b \in Jobs(ConcSeqs, ConcHeaders) :
        LET x == CHOOSE e \in {a, b} : TRUE
            y == CHOOSE e \in {a, b} : {x, e} = {a, b}
        IN  InitWith([w \in Workers |-> IF w = "w1" THEN x ELSE y], {})

\* As InitConc, with shorter sequences and any of the real streams broken.
InitLive ==
    \E a, b \in Jobs(LiveSeqs, ConcHeaders) : \E br \in SUBSET Streams :
        LET x == CHOOSE e \in {a, b} : TRUE
            y == CHOOSE e \in {a, b} : {x, e} = {a, b}
        IN  InitWith([w \in Workers |-> IF w = "w1" THEN x ELSE y], br)

\* ----------------------------------------------------------------- helpers

\* Bytes written to a real stream by worker w; origin is "write" (the
\* OutputBuffer flush), "header" (the unbuffered header print) or "child"
\* (a child process writing to the inherited descriptor).
Tag(w, origin, bytes) == [i \in 1..Len(bytes) |-> <<w, origin, bytes[i]>>]

\* let _ = <write to stream `name`>: the bytes reach the stream unless it
\* rejects the write; the error is dropped either way.
Written(s, name, tagged) == IF name \in broken THEN s ELSE s \o tagged

\* Variant: the guard is leaked, the lock stays held.
UnlockLeak(lock, w) == lock
\* Dropping a StdoutLock / StderrLock guard releases the lock.
Unlock(lock, w) == NoOwner

\* Variant: `first` is never cleared.
ClearFirstNever(f, w) == f
\* first = false
ClearFirst(f, w) == [f EXCEPT ![w] = FALSE]

\* Variant: the lock is not taken into account.
CanLockAlways(lock, w) == TRUE
\* Stdout::lock / Stderr::lock: the caller proceeds once nobody holds the lock.
CanLock(lock, w) == lock = NoOwner

\* Variant: write! instead of writeln!, no line feed.
HeaderLineNoFeed(h) == h[1]
\* writeln!(stdout, "{}", header)
HeaderLine(h) == h[1] \o <<NL>>

\* Variant: the entry is put at the front of the buffer.
PushEntryFront(buf, h, so, se) ==
    <<[header |-> h, stdout |-> so, stderr |-> se]>> \o buf
\* OutputBuffer::push
PushEntry(buf, h, so, se) ==
    Append(buf, [header |-> h, stdout |-> so, stderr |-> se])

\* Variant: the header is handed to every push.
PushHeaderAlways(w) == header[w]
\* The header handed to push: header.clone() while `first`, None afterwards.
PushHeader(w) == IF first[w] THEN header[w] ELSE None

\* Variant: no early return.
ShortCircuitNever(w) == FALSE
\* The early return of OutputBuffer::write.
ShortCircuit(w) == outputs[w] = <<>> /\ ~null_separator[w]

\* Variant: a child killed by a signal (no code) passes.
StatusOkOrNoCode(o) == o.code = Some(0) \/ o.code = None
\* output.status.code() != Some(0) decides failure.
StatusOk(o) == o.code = Some(0)

\* Variant: the error is handled without the flush before it.
SpawnErrPcNoFlush == "handle_err"
\* Where the runner goes when spawn or wait returned Err(why).
SpawnErrPc == "write"
\* Variant: the child always inherits the real streams.
InheritsAlways(w) == TRUE
\* cmd.spawn() leaves the child the real streams of the runner; cmd.output()
\* gives it pipes and captures what it writes.
Inherits(w) == ~enable_output_buffering[w]

\* Variant: the child is spawned and not waited for.
SpawnedPcNoWait == "loop"
\* Where the runner goes once the child is spawned: it waits for it.
SpawnedPc == "wait"

\* Variant: the captured output is not pushed.
WaitedPcNoPush(w) == "check"
\* Where the runner goes with Ok(output): the push in buffered mode, the
\* status check otherwise.
WaitedPc(w) == IF enable_output_buffering[w] THEN "push" ELSE "check"

\* Variant: no return after the flush, the loop goes on.
StatusFailPcContinue == "loop"
\* What follows the flush after a non-zero status: return GeneralError.
StatusFailPc == "general_error"

\* Variant: the header print goes without flush.
PrintedPcNoFlush == "hdr_unlock"
\* What follows the writeln! of the unbuffered header: handle.flush().
PrintedPc == "hdr_flush"

\* Where the runner goes when the iterator yields Err(e).
SpecErrPc == "handle_err"

\* Variant: the match looks at the error kind only.
ErrorMessageByKind(cmd, kind) ==
    IF kind = "NotFound"
    THEN <<"Command not found", IF cmd # None THEN cmd[1] ELSE "">>
    ELSE <<"Problem while executing command", kind>>
\* The message of handle_cmd_error(cmd, err), as <<text, detail>>.
ErrorMessage(cmd, kind) ==
    IF cmd # None /\ kind = "NotFound"
    THEN <<"Command not found", cmd[1]>>
    ELSE <<"Problem while executing command", kind>>

\* The arguments with which handle_cmd_error is called at pc "handle_err":
\* (None, e) for an element that is Err(e), (Some(&cmd), why) after a spawn.
ErrCmdArg(w) == IF cmds[w][idx[w]].ok THEN Some(cmds[w][idx[w]].prog) ELSE None
ErrKindArg(w) == IF cmds[w][idx[w]].ok THEN output[w].kind ELSE cmds[w][idx[w]].kind

\* Variant: the separator byte is never written.
LoopPcNoNul(w, i) ==
    IF i <= Len(outputs[w])
    THEN IF outputs[w][i].header # None THEN "w_header" ELSE "w_stdout"
    ELSE "w_drop_stderr"
\* Where write()'s loop stands with entry i next.
LoopPc(w, i) ==
    IF i <= Len(outputs[w])
    THEN IF outputs[w][i].header # None THEN "w_header" ELSE "w_stdout"
    ELSE IF null_separator[w] THEN "w_nul" ELSE "w_drop_stderr"

\* ------------------------------------------------------- execute_commands

\* for result in cmds: the iterator is exhausted; output_buffer.write().
IterEnd(w) ==
    /\ pc[w] = "loop"
    /\ idx[w] = Len(cmds[w])
    /\ pc' = [pc EXCEPT ![w] = "write"]
    /\ after' = [after EXCEPT ![w] = "success"]
    /\ UNCHANGED <<args, children, outputs, first, idx, output, wi, ret, spawned,
                   nwrites, locks, streams>>

\* for result in cmds: Err(e) => return handle_cmd_error(None, e).
IterErr(w) ==
    /\ pc[w] = "loop"
    /\ idx[w] < Len(cmds[w])
    /\ ~cmds[w][idx[w] + 1].ok
    /\ idx' = [idx EXCEPT ![w] = @ + 1]
    /\ pc' = [pc EXCEPT ![w] = SpecErrPc]
    /\ after' = [after EXCEPT ![w] = "handle_err"]
    /\ UNCHANGED <<args, children, outputs, first, output, wi, ret, spawned,
                   nwrites, locks, streams>>

\* for result in cmds: Ok(cmd); in unbuffered mode the `if first` block runs
\* before the spawn and prints the header when there is one.
IterOk(w) ==
    /\ pc[w] = "loop"
    /\ idx[w] < Len(cmds[w])
    /\ cmds[w][idx[w] + 1].ok
    /\ idx' = [idx EXCEPT ![w] = @ + 1]
    /\ IF ~enable_output_buffering[w] /\ first[w]
       THEN IF header[w] # None
            THEN /\ pc' = [pc EXCEPT ![w] = "hdr_lock"]
                 /\ first' = first
            ELSE /\ pc' = [pc EXCEPT ![w] = "spawn"]
                 /\ first' = ClearFirst(first, w)
       ELSE /\ pc' = [pc EXCEPT ![w] = "spawn"]
            /\ first' = first
    /\ UNCHANGED <<args, children, outputs, output, after, wi, ret, spawned,
                   nwrites, locks, streams>>

\* let mut handle = stdout.lock();
HeaderLock(w) ==
    /\ pc[w] = "hdr_lock"
    /\ CanLock(stdoutLock, w)
    /\ stdoutLock' = w
    /\ pc' = [pc EXCEPT ![w] = "hdr_write"]
    /\ UNCHANGED <<args, children, outputs, first, idx, output, after, wi, ret,
                   spawned, nwrites, stderrLock, streams>>

\* let _ = writeln!(handle, "{}", h);
HeaderPrint(w) ==
    /\ pc[w] = "hdr_write"
    /\ out' = Written(out, "out", Tag(w, "header", HeaderLine(header[w])))
    /\ pc' = [pc EXCEPT ![w] = PrintedPc]
    /\ UNCHANGED <<args, children, outputs, first, idx, output, after, wi, ret,
                   spawned, nwrites, locks, err, errchan>>

\* let _ = handle.flush();
HeaderFlush(w) ==
    /\ pc[w] = "hdr_flush"
    /\ hflushed' = [hflushed EXCEPT ![w] = TRUE]
    /\ pc' = [pc EXCEPT ![w] = "hdr_unlock"]
    /\ UNCHANGED <<args, running, outputs, first, idx, output, after, wi, ret,
                   spawned, nwrites, locks, streams>>

\* The guard is dropped at the end of the block; first = false.
HeaderUnlock(w) ==
    /\ pc[w] = "hdr_unlock"
    /\ stdoutLock' = Unlock(stdoutLock, w)
    /\ first' = ClearFirst(first, w)
    /\ pc' = [pc EXCEPT ![w] = "spawn"]
    /\ UNCHANGED <<args, children, outputs, idx, output, after, wi, ret,
                   spawned, nwrites, stderrLock, streams>>

\* cmd.output() / cmd.spawn(): the child process is created, or the spawn
\* fails with Err(why) and `match output` takes the Err arm.
Spawn(w) ==
    /\ pc[w] = "spawn"
    /\ LET r == RunProgram(cmds[w][idx[w]].prog) IN
       /\ spawned' = [spawned EXCEPT ![w] = Append(@, idx[w])]
       /\ IF r.ok
          THEN /\ running' = [running EXCEPT ![w] = @ \cup {idx[w]}]
               /\ pc' = [pc EXCEPT ![w] = SpawnedPc]
               /\ UNCHANGED <<output, after>>
          ELSE /\ output' = [output EXCEPT ![w] = r]
               /\ pc' = [pc EXCEPT ![w] = SpawnErrPc]
               /\ after' = [after EXCEPT ![w] = "handle_err"]
               /\ UNCHANGED running
    /\ UNCHANGED <<args, hflushed, outputs, first, idx, wi, ret, nwrites,
                   locks, streams>>

\* The wait inside cmd.output() (buffered: the child's streams are captured)
\* or c.wait_with_output() (unbuffered: the child has written to the real
\* streams it inherited and nothing is captured) returns; `match output`
\* takes the Ok arm.
Wait(w) ==
    /\ pc[w] = "wait"
    /\ LET r == RunProgram(cmds[w][idx[w]].prog) IN
       /\ running' = [running EXCEPT ![w] = @ \ {idx[w]}]
       /\ IF ~Inherits(w)
          THEN /\ output' = [output EXCEPT ![w] = r]
               /\ UNCHANGED <<out, err>>
          ELSE /\ output' = [output EXCEPT
                               ![w] = [r EXCEPT !.stdout = <<>>, !.stderr = <<>>]]
               /\ out' = Written(out, "out", Tag(w, "child", r.stdout))
               /\ err' = Written(err, "err", Tag(w, "child", r.stderr))
       /\ pc' = [pc EXCEPT ![w] = WaitedPc(w)]
    /\ UNCHANGED <<args, hflushed, outputs, first, idx, after, wi, ret,
                   spawned, nwrites, locks, errchan>>

\* Ok(output), buffered: output_buffer.push(h, output.stdout, output.stderr).
Push(w) ==
    /\ pc[w] = "push"
    /\ outputs' = [outputs EXCEPT
                     ![w] = PushEntry(@, PushHeader(w), output[w].stdout,
                                      output[w].stderr)]
    /\ first' = ClearFirst(first, w)
    /\ pc' = [pc EXCEPT ![w] = "check"]
    /\ UNCHANGED <<args, children, idx, output, after, wi, ret, spawned, nwrites,
                   locks, streams>>

\* if output.status.code() != Some(0) { output_buffer.write(); return GeneralError }
CheckStatus(w) ==
    /\ pc[w] = "check"
    /\ IF StatusOk(output[w])
       THEN /\ pc' = [pc EXCEPT ![w] = "loop"]
            /\ after' = after
       ELSE /\ pc' = [pc EXCEPT ![w] = "write"]
            /\ after' = [after EXCEPT ![w] = StatusFailPc]
    /\ UNCHANGED <<args, children, outputs, first, idx, output, wi, ret, spawned,
                   nwrites, locks, streams>>

\* return ExitCode::GeneralError / ExitCode::Success
Return(w) ==
    /\ pc[w] \in {"success", "general_error"}
    /\ ret' = [ret EXCEPT
                 ![w] = Some(IF pc[w] = "success" THEN "Success" ELSE "GeneralError")]
    /\ pc' = [pc EXCEPT ![w] = "done"]
    /\ UNCHANGED <<args, children, outputs, first, idx, output, after, wi, spawned,
                   nwrites, locks, streams>>

\* handle_cmd_error: print_error(message) on the error channel (eprintln!
\* takes the stderr lock for the message), then ExitCode::GeneralError.
HandleCmdError(w) ==
    /\ pc[w] = "handle_err"
    /\ CanLock(stderrLock, w)
    /\ errchan' = Append(errchan, <<w>> \o ErrorMessage(ErrCmdArg(w), ErrKindArg(w)))
    /\ ret' = [ret EXCEPT ![w] = Some("GeneralError")]
    /\ pc' = [pc EXCEPT ![w] = "done"]
    /\ UNCHANGED <<args, children, outputs, first, idx, output, after, wi, spawned,
                   nwrites, locks, out, err>>

\* ---------------------------------------------------- OutputBuffer::write

\* write(self) is entered; with nothing to do it returns at once.
WriteEnter(w) ==
    /\ pc[w] = "write"
    /\ nwrites' = [nwrites EXCEPT ![w] = @ + 1]
    /\ pc' = [pc EXCEPT ![w] = IF ShortCircuit(w) THEN after[w] ELSE "w_lock_stdout"]
    /\ UNCHANGED <<args, children, outputs, first, idx, output, after, wi, ret,
                   spawned, locks, streams>>

\* let mut stdout = stdout.lock();
WriteLockStdout(w) ==
    /\ pc[w] = "w_lock_stdout"
    /\ CanLock(stdoutLock, w)
    /\ stdoutLock' = w
    /\ pc' = [pc EXCEPT ![w] = "w_lock_stderr"]
    /\ UNCHANGED <<args, children, outputs, first, idx, output, after, wi, ret,
                   spawned, nwrites, stderrLock, streams>>

\* let mut stderr = stderr.lock();
WriteLockStderr(w) ==
    /\ pc[w] = "w_lock_stderr"
    /\ CanLock(stderrLock, w)
    /\ stderrLock' = w
    /\ wi' = [wi EXCEPT ![w] = 1]
    /\ pc' = [pc EXCEPT ![w] = LoopPc(w, 1)]
    /\ UNCHANGED <<args, children, outputs, first, idx, output, after, ret, spawned,
                   nwrites, stdoutLock, streams>>

\* if let Some(ref header) = output.header { writeln!(stdout, "{}", header) }
WriteEntryHeader(w) ==
    /\ pc[w] = "w_header"
    /\ out' = Written(out, "out",
                      Tag(w, "write", HeaderLine(outputs[w][wi[w]].header)))
    /\ pc' = [pc EXCEPT ![w] = "w_stdout"]
    /\ UNCHANGED <<args, children, outputs, first, idx, output, after, wi, ret,
                   spawned, nwrites, locks, err, errchan>>

\* let _ = stdout.write_all(&output.stdout);
WriteEntryStdout(w) ==
    /\ pc[w] = "w_stdout"
    /\ out' = Written(out, "out", Tag(w, "write", outputs[w][wi[w]].stdout))
    /\ pc' = [pc EXCEPT ![w] = "w_stderr"]
    /\ UNCHANGED <<args, children, outputs, first, idx, output, after, wi, ret,
                   spawned, nwrites, locks, err, errchan>>

\* let _ = stderr.write_all(&output.stderr); and on to the next entry.
WriteEntryStderr(w) ==
    /\ pc[w] = "w_stderr"
    /\ err' = Written(err, "err", Tag(w, "write", outputs[w][wi[w]].stderr))
    /\ wi' = [wi EXCEPT ![w] = @ + 1]
    /\ pc' = [pc EXCEPT ![w] = LoopPc(w, wi[w] + 1)]
    /\ UNCHANGED <<args, children, outputs, first, idx, output, after, ret, spawned,
                   nwrites, locks, out, errchan>>

\* if self.null_separator { let _ = stdout.write_all(b"\0"); }
WriteNul(w) ==
    /\ pc[w] = "w_nul"
    /\ out' = Written(out, "out", Tag(w, "write", <<NUL>>))
    /\ pc' = [pc EXCEPT ![w] = "w_drop_stderr"]
    /\ UNCHANGED <<args, children, outputs, first, idx, output, after, wi, ret,
                   spawned, nwrites, locks, err, errchan>>

\* End of write: the guards are dropped in reverse order of declaration.
WriteDropStderr(w) ==
    /\ pc[w] = "w_drop_stderr"
    /\ stderrLock' = Unlock(stderrLock, w)
    /\ pc' = [pc EXCEPT ![w] = "w_drop_stdout"]
    /\ UNCHANGED <<args, children, outputs, first, idx, output, after, wi, ret,
                   spawned, nwrites, stdoutLock, streams>>

WriteDropStdout(w) ==
    /\ pc[w] = "w_drop_stdout"
    /\ stdoutLock' = Unlock(stdoutLock, w)
    /\ pc' = [pc EXCEPT ![w] = after[w]]
    /\ UNCHANGED <<args, children, outputs, first, idx, output, after, wi, ret,
                   spawned, nwrites, stderrLock, streams>>

\* ----------------------------------------------------------- specification

\* One step of worker w.
Step(w) ==
    \/ IterEnd(w)
    \/ IterErr(w)
    \/ IterOk(w)
    \/ HeaderLock(w)
    \/ HeaderPrint(w)
    \/ HeaderFlush(w)
    \/ HeaderUnlock(w)
    \/ Spawn(w)
    \/ Wait(w)
    \/ Push(w)
    \/ CheckStatus(w)
    \/ Return(w)
    \/ HandleCmdError(w)
    \/ WriteEnter(w)
    \/ WriteLockStdout(w)
    \/ WriteLockStderr(w)
    \/ WriteEntryHeader(w)
    \/ WriteEntryStdout(w)
    \/ WriteEntryStderr(w)
    \/ WriteNul(w)
    \/ WriteDropStderr(w)
    \/ WriteDropStdout(w)

Next == \E w \in Workers : Step(w)

\* One runner on one thread.
Spec == Init /\ [][Next]_vars

\* Two worker threads, each with its own runner and buffer.
SpecConc == InitConc /\ [][Next]_vars

\* Two worker threads under a fair scheduler: a thread that can take a step
\* is not held back forever, and a child that was spawned exits.
SpecLive == InitLive /\ [][Next]_vars /\ \A w \in Workers : WF_vars(Step(w))

\* ------------------------------------------------------- reading the state

\* The bytes worker w put on stream s with the given origin, in order.
Bytes(s, w, origin) ==
    LET f == SelectSeq(s, LAMBDA e : e[1] = w /\ e[2] = origin)
    IN  [i \in 1..Len(f) |-> f[i][3]]

\* What the operating system does with the i-th command of worker w.
Captured(w, i) == RunProgram(cmds[w][i].prog)

\* The i-th element materializes, spawns and exits with code 0.
ExitsZero(w, i) ==
    /\ cmds[w][i].ok
    /\ Captured(w, i).ok
    /\ Captured(w, i).code = Some(0)

AllExitZero(w) == \A i \in 1..Len(cmds[w]) : ExitsZero(w, i)

\* Command k is the first whose exit status is not a clean zero code.
FirstNonZero(w, k) ==
    /\ k \in 1..Len(cmds[w])
    /\ \A i \in 1..(k - 1) : ExitsZero(w, i)
    /\ cmds[w][k].ok
    /\ Captured(w, k).ok
    /\ Captured(w, k).code # Some(0)

RECURSIVE CapturedStdout(_, _)
\* The captured stdout of commands 1..n of worker w, concatenated.
CapturedStdout(w, n) ==
    IF n = 0 THEN <<>> ELSE CapturedStdout(w, n - 1) \o Captured(w, n).stdout

RECURSIVE CapturedStderr(_, _)
CapturedStderr(w, n) ==
    IF n = 0 THEN <<>> ELSE CapturedStderr(w, n - 1) \o Captured(w, n).stderr

\* The header as it is printed: its bytes and a line feed; nothing for None.
Printed(h) == IF h = None THEN <<>> ELSE h[1] \o <<10>>

Separator(w) == IF null_separator[w] THEN <<0>> ELSE <<>>

Done(w) == pc[w] = "done"

\* ------------------------------------------------------------------ claims

\* C1: in buffered mode, when all N commands materialize, spawn and exit with
\* code 0, the run returns Success after a single flush that emits exactly N
\* entries, the i-th being the captured output of the i-th command.
C1_AllZeroInOrder ==
    \A w \in Workers :
        (Done(w) /\ enable_output_buffering[w] /\ AllExitZero(w)) =>
            LET n == Len(cmds[w]) IN
            /\ ret[w] = Some("Success")
            /\ nwrites[w] = 1
            /\ Len(outputs[w]) = n
            /\ \A i \in 1..n :
                  /\ outputs[w][i].stdout = Captured(w, i).stdout
                  /\ outputs[w][i].stderr = Captured(w, i).stderr
            /\ Bytes(out, w, "write") =
                  (IF n > 0 THEN Printed(header[w]) ELSE <<>>)
                     \o CapturedStdout(w, n) \o Separator(w)
            /\ Bytes(err, w, "write") = CapturedStderr(w, n)

C1_Witness ==
    /\ Done("w1")
    /\ enable_output_buffering["w1"]
    /\ AllExitZero("w1")
    /\ Len(cmds["w1"]) = MaxCmds
    /\ cmds["w1"][1].prog = "echoA"
    /\ cmds["w1"][2].prog = "echoB"
    /\ ret["w1"] = Some("Success")

\* C2: fail-fast. When command k is the first whose exit status is not a
\* clean zero code, exactly commands 1..k are spawned, none of k+1..N ever
\* is, and the run returns GeneralError, in buffered and unbuffered mode.
C2_FailFast ==
    \A w \in Workers : \A k \in 1..Len(cmds[w]) :
        FirstNonZero(w, k) =>
            /\ \A j \in 1..Len(spawned[w]) : spawned[w][j] = j /\ j <= k
            /\ Done(w) => (Len(spawned[w]) = k /\ ret[w] = Some("GeneralError"))

C2_Witness ==
    /\ Done("w1")
    /\ ~enable_output_buffering["w1"]
    /\ Len(cmds["w1"]) = MaxCmds
    /\ FirstNonZero("w1", 2)
    /\ cmds["w1"][2].prog = "killed"
    /\ spawned["w1"] = <<1, 2>>

\* C3: with several workers, each with its own OutputBuffer, a worker's
\* write() holds the stdout lock and the stderr lock from its first emitted
\* byte to its last, and on neither stream do bytes of another worker's flush
\* lie between two bytes of the same flush.
InWriteLoop(w) == pc[w] \in {"w_header", "w_stdout", "w_stderr", "w_nul"}

\* Among the flush bytes of stream s, once the worker changes the earlier
\* worker does not come back.
Contiguous(s) ==
    LET f == SelectSeq(s, LAMBDA e : e[2] = "write") IN
    \A i \in 1..(Len(f) - 1) :
        f[i][1] # f[i + 1][1] =>
            \A k \in (i + 1)..Len(f) : f[k][1] # f[i][1]

C3_FlushExclusive ==
    /\ \A w \in Workers :
          InWriteLoop(w) => (stdoutLock = w /\ stderrLock = w)
    /\ Contiguous(out)
    /\ Contiguous(err)

\* A buffered worker is at the second entry of its flush, bytes of it on
\* both streams, while the other buffered worker, with two entries to flush,
\* waits for the stdout lock.
C3_Witness ==
    \E w, v \in Workers :
        /\ w # v
        /\ enable_output_buffering[w]
        /\ enable_output_buffering[v]
        /\ pc[w] = "w_stderr"
        /\ wi[w] = 2
        /\ Bytes(err, w, "write") # <<>>
        /\ pc[v] = "w_lock_stdout"
        /\ Len(outputs[v]) = 2

\* C10: write() on a buffer with zero entries and null_separator = false
\* takes neither lock and writes nothing, and it is never blocked by another
\* worker that holds the stream locks: it returns in one step.
InWrite(w) ==
    pc[w] \in {"w_lock_stdout", "w_lock_stderr", "w_header", "w_stdout",
               "w_stderr", "w_nul", "w_drop_stderr", "w_drop_stdout"}

C10_EmptyWriteNoOp ==
    \A w \in Workers :
        (outputs[w] = <<>> /\ ~null_separator[w]) =>
            /\ ~InWrite(w)
            /\ Bytes(out, w, "write") = <<>>
            /\ Bytes(err, w, "write") = <<>>
            /\ pc[w] = "write" => ENABLED (WriteEnter(w) /\ pc'[w] = after[w])

\* A worker's write() of an empty buffer has returned while the other worker
\* is inside its own write() and holds both locks.
C10_Witness ==
    \E w, v \in Workers :
        /\ outputs[w] = <<>>
        /\ ~null_separator[w]
        /\ nwrites[w] = 1
        /\ pc[w] = "success"
        /\ pc[v] = "w_header"
        /\ stdoutLock = v
        /\ stderrLock = v

\* ---------------------------------------------------- reading the buffer

RECURSIVE FlatStdout(_, _)
\* What entries 1..n of a buffer put on stdout: per entry the header line,
\* if it has a header, then its stdout bytes.
FlatStdout(es, n) ==
    IF n = 0 THEN <<>>
    ELSE FlatStdout(es, n - 1) \o Printed(es[n].header) \o es[n].stdout

RECURSIVE FlatStderr(_, _)
FlatStderr(es, n) ==
    IF n = 0 THEN <<>> ELSE FlatStderr(es, n - 1) \o es[n].stderr

\* The entries of w's buffer that carry a header.
Attached(w) == {i \in 1..Len(outputs[w]) : outputs[w][i].header # None}

\* The header bytes w printed directly, outside the buffer.
Direct(w) == Bytes(out, w, "header")

\* Every entry of w's buffer has reached the real streams.
Flushed(w) ==
    /\ Bytes(out, w, "write") =
          FlatStdout(outputs[w], Len(outputs[w])) \o Separator(w)
    /\ Bytes(err, w, "write") = FlatStderr(outputs[w], Len(outputs[w]))

\* The messages w printed on the error channel.
Messages(w) == SelectSeq(errchan, LAMBDA e : e[1] = w)

\* C4 (as stated): whenever a header is supplied, in every finished run it is
\* in exactly one place: the first buffered entry (buffered mode) or one
\* direct print (unbuffered mode); never both, never neither.
C4_Original ==
    \A w \in Workers :
        (Done(w) /\ header[w] # None) =>
            IF enable_output_buffering[w]
            THEN /\ Attached(w) = {1}
                 /\ outputs[w][1].header = header[w]
                 /\ Direct(w) = <<>>
            ELSE /\ Attached(w) = {}
                 /\ Direct(w) = Printed(header[w])

\* The first element materializes and, in buffered mode, its command is
\* spawned and waited for without an OS error.
HeaderDue(w) ==
    /\ Len(cmds[w]) >= 1
    /\ cmds[w][1].ok
    /\ enable_output_buffering[w] => Captured(w, 1).ok

\* C4 (amended): a supplied header is never in both places and never in one
\* place twice; the finished run has it in exactly one place when the first
\* element materialized and, in buffered mode, its command spawned and was
\* waited for, and in no place otherwise. Unbuffered, it is printed before
\* the first spawn.
C4_HeaderOnePlace ==
    \A w \in Workers :
        header[w] # None =>
            /\ Attached(w) \subseteq {1}
            /\ \A i \in Attached(w) : outputs[w][i].header = header[w]
            /\ Direct(w) \in {<<>>, Printed(header[w])}
            /\ enable_output_buffering[w] => Direct(w) = <<>>
            /\ ~enable_output_buffering[w] =>
                  /\ Attached(w) = {}
                  /\ spawned[w] # <<>> => Direct(w) # <<>>
            /\ Done(w) =>
                  IF HeaderDue(w)
                  THEN (Attached(w) = {1}) # (Direct(w) # <<>>)
                  ELSE Attached(w) = {} /\ Direct(w) = <<>>

C4_Witness ==
    /\ Done("w1")
    /\ header["w1"] # None
    /\ enable_output_buffering["w1"]
    /\ Len(outputs["w1"]) = MaxCmds
    /\ Attached("w1") = {1}
    /\ Direct("w1") = <<>>

\* C5: on every path by which the run returns, the buffer has been flushed:
\* write() was called and every entry pushed in the run is on the real
\* streams when the ExitCode is returned.
C5_FlushOnEveryReturn ==
    \A w \in Workers :
        Done(w) => (nwrites[w] >= 1 /\ Flushed(w))

\* C6: with null_separator = true every finished run has written exactly one
\* separator byte to stdout, after everything else the runner wrote there.
C6_OneTrailingNul ==
    \A w \in Workers :
        (Done(w) /\ null_separator[w]) =>
            /\ Bytes(out, w, "write") =
                  FlatStdout(outputs[w], Len(outputs[w])) \o <<0>>
            /\ out # <<>>
            /\ out[Len(out)] = <<w, "write", 0>>

\* C7: write() emits the entries in insertion order and, per entry, the
\* header line (if any) to stdout, then the stdout bytes to stdout, then the
\* stderr bytes to stderr: at every point of the loop the bytes on the real
\* streams are the concatenation, in invocation order, of what the entries
\* written so far hold, which is what was captured from the children, byte
\* for byte (the separator of null_separator follows the last entry).
C7_WriteConcatenates ==
    \A w \in Workers :
        LET es == outputs[w]
            i == wi[w]
            wout == Bytes(out, w, "write")
            werr == Bytes(err, w, "write")
        IN  /\ \A n \in 1..Len(es) :
                  /\ es[n].stdout = Captured(w, n).stdout
                  /\ es[n].stderr = Captured(w, n).stderr
            /\ pc[w] = "w_header" =>
                  /\ wout = FlatStdout(es, i - 1)
                  /\ werr = FlatStderr(es, i - 1)
            /\ pc[w] = "w_stdout" =>
                  /\ wout = FlatStdout(es, i - 1) \o Printed(es[i].header)
                  /\ werr = FlatStderr(es, i - 1)
            /\ pc[w] = "w_stderr" =>
                  /\ wout = FlatStdout(es, i)
                  /\ werr = FlatStderr(es, i - 1)
            /\ pc[w] = "w_nul" =>
                  /\ wout = FlatStdout(es, Len(es))
                  /\ werr = FlatStderr(es, Len(es))
            /\ pc[w] \in {"w_drop_stderr", "w_drop_stdout"} =>
                  /\ wout = FlatStdout(es, Len(es)) \o Separator(w)
                  /\ werr = FlatStderr(es, Len(es))

\* [echo A, echo B] with header H: H\nA\nB\n is on stdout when the loop ends,
\* and the warning of echo B on stderr.
C7_Witness ==
    /\ pc["w1"] = "w_drop_stderr"
    /\ ~null_separator["w1"]
    /\ header["w1"] = Some(<<72>>)
    /\ Len(cmds["w1"]) = 2
    /\ cmds["w1"][1].prog = "echoA"
    /\ cmds["w1"][2].prog = "echoB"
    /\ Bytes(out, "w1", "write") = <<72, 10, 65, 10, 66, 10>>
    /\ Bytes(err, "w1", "write") = <<69>>

\* Spawning or waiting for command k fails at the OS level, after commands
\* 1..k-1 exited with code 0.
SpawnFails(w, k) ==
    /\ k \in 1..Len(cmds[w])
    /\ \A i \in 1..(k - 1) : ExitsZero(w, i)
    /\ cmds[w][k].ok
    /\ ~Captured(w, k).ok

\* C8: when spawning or waiting for command k fails, the entries buffered
\* for commands 1..k-1 are flushed first, then the error is reported
\* ("Command not found: <name>" for NotFound, the generic message otherwise),
\* GeneralError is returned and none of k+1..N is spawned.
C8_SpawnFailure ==
    \A w \in Workers : \A k \in 1..Len(cmds[w]) :
        SpawnFails(w, k) =>
            /\ \A j \in 1..Len(spawned[w]) : spawned[w][j] = j /\ j <= k
            /\ Messages(w) # <<>> =>
                  /\ nwrites[w] = 1
                  /\ ~InWrite(w)
                  /\ Len(outputs[w]) = IF enable_output_buffering[w] THEN k - 1 ELSE 0
                  /\ Flushed(w)
            /\ Done(w) =>
                  /\ ret[w] = Some("GeneralError")
                  /\ Len(spawned[w]) = k
                  /\ Messages(w) =
                        << IF Captured(w, k).kind = "NotFound"
                           THEN <<w, "Command not found", cmds[w][k].prog>>
                           ELSE <<w, "Problem while executing command",
                                  Captured(w, k).kind>> >>

C8_Witness ==
    /\ Done("w1")
    /\ enable_output_buffering["w1"]
    /\ Len(cmds["w1"]) = MaxCmds
    /\ SpawnFails("w1", 2)
    /\ Len(outputs["w1"]) = 1
    /\ Bytes(out, "w1", "write") # <<>>
    /\ Messages("w1") = << <<"w1", "Command not found", "nonexistent">> >>

\* Element k is a spec-construction failure, after commands 1..k-1 exited
\* with code 0.
SpecFails(w, k) ==
    /\ k \in 1..Len(cmds[w])
    /\ \A i \in 1..(k - 1) : ExitsZero(w, i)
    /\ ~cmds[w][k].ok

\* C9: when element k is a spec-construction failure the run aborts at once:
\* GeneralError, no push for that element, no flush, no spawn of it or of a
\* later one, and the generic message whatever the kind of the error.
C9_SpecFailure ==
    \A w \in Workers : \A k \in 1..Len(cmds[w]) :
        SpecFails(w, k) =>
            /\ \A j \in 1..Len(spawned[w]) : spawned[w][j] = j /\ j < k
            /\ Len(outputs[w]) <= k - 1
            /\ nwrites[w] = 0
            /\ Bytes(out, w, "write") = <<>>
            /\ Bytes(err, w, "write") = <<>>
            /\ Done(w) =>
                  /\ ret[w] = Some("GeneralError")
                  /\ Len(spawned[w]) = k - 1
                  /\ Messages(w) =
                        << <<w, "Problem while executing command", cmds[w][k].kind>> >>

C9_Witness ==
    /\ Done("w1")
    /\ enable_output_buffering["w1"]
    /\ Len(cmds["w1"]) = MaxCmds
    /\ SpecFails("w1", 2)
    /\ cmds["w1"][2].kind = "NotFound"
    /\ Len(outputs["w1"]) = 1
    /\ spawned["w1"] = <<1>>

\* Everything worker w put on stream s, with its origin.
Own(s, w) == SelectSeq(s, LAMBDA e : e[1] = w)

\* C11: an empty command sequence returns Success after one final flush, in
\* either mode; nothing is spawned, pushed or reported, nothing reaches the
\* real streams when null_separator is false, and exactly one NUL byte on
\* stdout and nothing else when it is true.
C11_EmptySequence ==
    \A w \in Workers :
        (Done(w) /\ cmds[w] = <<>>) =>
            /\ ret[w] = Some("Success")
            /\ nwrites[w] = 1
            /\ spawned[w] = <<>>
            /\ outputs[w] = <<>>
            /\ Messages(w) = <<>>
            /\ Own(out, w) = Tag(w, "write", Separator(w))
            /\ Own(err, w) = <<>>

C11_Witness ==
    /\ Done("w1")
    /\ cmds["w1"] = <<>>
    /\ null_separator["w1"]
    /\ ~enable_output_buffering["w1"]
    /\ header["w1"] # None
    /\ out = <<<<"w1", "write", NUL>>>>

\* C12: the header is emitted at most once: it is never printed directly more
\* than once, never attached to more than one entry, and never both printed
\* and attached.
C12_HeaderAtMostOnce ==
    \A w \in Workers :
        /\ Attached(w) \subseteq {1}
        /\ \A i \in Attached(w) : outputs[w][i].header = header[w]
        /\ Direct(w) \in {<<>>, Printed(header[w])}
        /\ ~(Attached(w) # {} /\ Direct(w) # <<>>)
        /\ enable_output_buffering[w] => Direct(w) = <<>>
        /\ ~enable_output_buffering[w] => Attached(w) = {}

C12_Witness ==
    /\ Done("w1")
    /\ ~enable_output_buffering["w1"]
    /\ header["w1"] # None
    /\ Len(cmds["w1"]) = MaxCmds
    /\ AllExitZero("w1")
    /\ Len(spawned["w1"]) = MaxCmds
    /\ Direct("w1") = Printed(header["w1"])

\* C13: the buffer is used once: write() is called at most once in a run, and
\* once it has been called nothing is pushed, nothing is spawned and write()
\* is not called again.
C13_SingleUse ==
    /\ [](\A w \in Workers : nwrites[w] <= 1)
    /\ [][\A w \in Workers :
            nwrites[w] >= 1 =>
                /\ outputs'[w] = outputs[w]
                /\ spawned'[w] = spawned[w]
                /\ running'[w] = running[w]
                /\ nwrites'[w] = nwrites[w]]_vars

C13_Witness ==
    /\ Done("w1")
    /\ enable_output_buffering["w1"]
    /\ nwrites["w1"] = 1
    /\ Len(cmds["w1"]) = MaxCmds
    /\ Len(outputs["w1"]) = 2
    /\ spawned["w1"] = <<1, 2>>
    /\ ret["w1"] = Some("GeneralError")

\* C14: in buffered mode the output of a command is pushed before its status
\* is inspected; when command k is the first with a non-zero status, write()
\* is called exactly once and flushes exactly k entries, the last being the
\* output of the failing command.
C14_FailingOutputFlushed ==
    \A w \in Workers :
        enable_output_buffering[w] =>
            /\ pc[w] = "check" =>
                  /\ Len(outputs[w]) = idx[w]
                  /\ outputs[w][idx[w]].stdout = output[w].stdout
                  /\ outputs[w][idx[w]].stderr = output[w].stderr
            /\ \A k \in 1..Len(cmds[w]) :
                  (FirstNonZero(w, k) /\ Done(w)) =>
                      /\ nwrites[w] = 1
                      /\ ret[w] = Some("GeneralError")
                      /\ Len(outputs[w]) = k
                      /\ outputs[w][k].stdout = Captured(w, k).stdout
                      /\ outputs[w][k].stderr = Captured(w, k).stderr
                      /\ Flushed(w)

C14_Witness ==
    /\ Done("w1")
    /\ enable_output_buffering["w1"]
    /\ FirstNonZero("w1", 2)
    /\ cmds["w1"][1].prog = "echoA"
    /\ cmds["w1"][2].prog = "killed"
    /\ Len(cmds["w1"]) = MaxCmds
    /\ Len(outputs["w1"]) = 2
    /\ Bytes(err, "w1", "write") = Captured("w1", 2).stderr
    /\ Bytes(out, "w1", "write") =
          Printed(header["w1"]) \o <<65, 10>> \o Captured("w1", 2).stdout
             \o Separator("w1")

\* C15: a runner is strictly sequential: at most one child of a call is alive
\* at any time, the runner does nothing but wait while it is, and the next
\* element is pulled or spawned only after the wait for the previous command
\* has returned and its status has been checked (and found zero).
C15_Sequential ==
    \A w \in Workers :
        /\ Cardinality(running[w]) <= 1
        /\ running[w] # {} <=> pc[w] = "wait"
        /\ running[w] \subseteq {idx[w]}
        /\ (pc[w] \in {"loop", "hdr_lock", "hdr_write", "hdr_flush",
                        "hdr_unlock", "spawn"}) =>
              LET prev == IF pc[w] = "loop" THEN idx[w] ELSE idx[w] - 1 IN
              /\ spawned[w] = [i \in 1..prev |-> i]
              /\ \A i \in 1..prev : ExitsZero(w, i)
              /\ prev >= 1 => /\ output[w].ok
                              /\ StatusOk(output[w])
                              /\ output[w].code = Captured(w, prev).code

C15_Witness ==
    /\ pc["w1"] = "wait"
    /\ idx["w1"] = MaxCmds
    /\ running["w1"] = {MaxCmds}
    /\ spawned["w1"] = [i \in 1..MaxCmds |-> i]
    /\ enable_output_buffering["w1"]

\* C16: in unbuffered mode a supplied header is on real stdout and flushed
\* before the first child is spawned, ahead of every byte a child writes,
\* and the runner holds no stream lock while it spawns and waits; nothing
\* is ever pushed, and the final flush emits nothing but the optional NUL.
C16_UnbufferedHeaderFirst ==
    \A w \in Workers :
        ~enable_output_buffering[w] =>
            /\ outputs[w] = <<>>
            /\ Bytes(out, w, "write") \in {<<>>, Separator(w)}
            /\ Done(w) /\ nwrites[w] = 1 =>
                  Bytes(out, w, "write") = Separator(w)
            /\ Bytes(err, w, "write") = <<>>
            /\ pc[w] \in {"spawn", "wait"} =>
                  /\ stdoutLock # w
                  /\ stderrLock # w
            /\ (header[w] # None /\ (pc[w] = "spawn" \/ spawned[w] # <<>>)) =>
                  /\ hflushed[w]
                  /\ Direct(w) = Printed(header[w])
                  /\ SubSeq(Own(out, w), 1, Len(Direct(w))) =
                        Tag(w, "header", Direct(w))

C16_Witness ==
    /\ ~enable_output_buffering["w1"]
    /\ header["w1"] # None
    /\ pc["w1"] = "wait"
    /\ idx["w1"] = 1
    /\ running["w1"] = {1}
    /\ hflushed["w1"]
    /\ stdoutLock = NoOwner
    /\ out = Tag("w1", "header", Printed(header["w1"]))

Holds(w) == stdoutLock = w \/ stderrLock = w

\* Where a worker stands between taking the stdout lock and dropping it.
HoldsStdoutAt ==
    {"hdr_write", "hdr_flush", "hdr_unlock", "w_lock_stderr", "w_header",
     "w_stdout", "w_stderr", "w_nul", "w_drop_stderr", "w_drop_stdout"}

\* Where a worker stands between taking the stderr lock and dropping it.
HoldsStderrAt == {"w_header", "w_stdout", "w_stderr", "w_nul", "w_drop_stderr"}

\* C18: the locks are taken in one order and always released, also when the
\* writes to the real streams fail: the stderr lock is only held together
\* with the stdout lock (write), the header print holds the stdout lock
\* alone, a worker that has returned holds nothing, a worker that holds a
\* lock can always take its next step, the workers are never all blocked,
\* and under fair scheduling every worker returns an ExitCode.
C18_LocksReleased ==
    /\ [](\A w \in Workers :
            /\ stdoutLock = w <=> pc[w] \in HoldsStdoutAt
            /\ stderrLock = w <=> pc[w] \in HoldsStderrAt
            /\ stderrLock = w => stdoutLock = w
            /\ Done(w) => (~Holds(w) /\ ret[w] # None)
            /\ Holds(w) => ENABLED Step(w))
    /\ []((\A w \in Workers : Done(w)) \/ ENABLED Next)
    /\ \A w \in Workers : <>(Done(w) /\ ret[w] # None)

C18_Witness ==
    /\ broken = Streams
    /\ \A w \in Workers :
          /\ Done(w)
          /\ nwrites[w] = 1
          /\ spawned[w] # <<>>
          /\ ~Holds(w)
    /\ \E w \in Workers : enable_output_buffering[w] /\ outputs[w] # <<>>
    /\ \E w \in Workers : ~enable_output_buffering[w] /\ hflushed[w]
    /\ out = <<>>
    /\ err = <<>>

\* The first element was Ok(cmd) and the runner is through with it: it has
\* moved on to a later element, is back at the head of the loop, or has
\* returned.
FirstHandled(w) ==
    /\ Len(cmds[w]) >= 1
    /\ cmds[w][1].ok
    /\ \/ idx[w] >= 2
       \/ idx[w] = 1 /\ pc[w] \in {"loop", "done"}

\* C19 (as stated): `first` is false once the first element has been
\* handled, in either mode, whether its command succeeded or failed to spawn.
C19_Original ==
    \A w \in Workers : FirstHandled(w) => ~first[w]

\* The positions of the unbuffered header print, before first = false.
InHeaderPrint(w) ==
    pc[w] \in {"hdr_lock", "hdr_write", "hdr_flush", "hdr_unlock"}

\* C19 (amended): `first` starts true and never returns to true once false
\* (so it changes at most once); in unbuffered mode it is cleared before the
\* first spawn, in buffered mode at the first push and only there, so it is
\* still true after a buffered run whose first command failed to spawn, and
\* in either mode after a first element that is Err.
C19_FirstGate ==
    /\ [](\A w \in Workers :
            /\ idx[w] = 0 => first[w]
            /\ enable_output_buffering[w] => (first[w] <=> outputs[w] = <<>>)
            /\ ~enable_output_buffering[w] =>
                  (first[w] <=> \/ idx[w] = 0
                                \/ idx[w] = 1 /\ InHeaderPrint(w)
                                \/ idx[w] = 1 /\ ~cmds[w][1].ok)
            /\ (FirstHandled(w) /\ first[w]) =>
                  (enable_output_buffering[w] /\ SpawnFails(w, 1)))
    /\ [][\A w \in Workers : first'[w] => first[w]]_vars

C19_Witness ==
    /\ pc["w1"] = "check"
    /\ enable_output_buffering["w1"]
    /\ idx["w1"] = 2
    /\ Len(outputs["w1"]) = 2
    /\ outputs["w1"][1].header = header["w1"]
    /\ outputs["w1"][2].header = None
    /\ header["w1"] # None
    /\ ~first["w1"]

====
